---- MODULE Spec2Model ----
(***************************************************************************)
(* DPLL SAT solver (src/sat_solver.py, class SATSolver) as a state         *)
(* machine.  The recursion of _dpll is an explicit stack of call frames;   *)
(* every frame steps through entry checks, the unit-propagation loop, the  *)
(* pure-literal pass, the choice of a branch variable and the two          *)
(* recursive calls.  Formulas are sequences of clauses, clauses sequences  *)
(* of signed integers, assignments partial functions Variable -> BOOLEAN.  *)
(***************************************************************************)
EXTENDS Integers, Sequences, FiniteSets, TLC

VARIABLES original_cnf, assignment, decisions, stack, ret, status, results, instance

vars == <<original_cnf, assignment, decisions, stack, ret, status, results, instance>>

(* ------------------------------ bounds --------------------------------- *)
NumVars == 3
MaxClauseLen == 2
MaxClauses == 2
MaxCalls == 2
MaxHoles == 2

(* --------------------------- Python values ----------------------------- *)
\* Optional[T]: None is the empty tuple, a present value x is <<x>>.
None == <<>>

Some(x) == <<x>>

\* dict(): the empty assignment
EmptyDict == <<>>

Abs(x) == IF x < 0 THEN -x ELSE x

\* x in seq
Contains(seq, x) == \E i \in DOMAIN seq : seq[i] = x

\* d[k] = v on a dict
DictSet(d, k, v) == [x \in (DOMAIN d) \cup {k} |-> IF x = k THEN v ELSE d[x]]

\* copy.deepcopy of a list of lists of ints: new lists, equal elements
Deepcopy(cnf) == [i \in 1..Len(cnf) |-> [j \in 1..Len(cnf[i]) |-> cnf[i][j]]]

(* ------------------------------ inputs --------------------------------- *)
Literals == (-NumVars..NumVars) \ {0}

ClauseSet == UNION {[1..n -> Literals] : n \in 0..MaxClauseLen}

FormulaSet == UNION {[1..n -> ClauseSet] : n \in 0..MaxClauses}

\* CNFGenerator.generate_pigeon_hole: var(pigeon, hole) = pigeon * n + hole + 1
PigeonVar(n, pigeon, hole) == pigeon * n + hole + 1

\* the pairs (p1, p2), p1 < p2, of one hole in loop order, as clauses
RECURSIVE PigeonPairs(_, _, _, _)
PigeonPairs(n, hole, p1, p2) ==
    IF p1 > n THEN <<>>
    ELSE IF p2 > n THEN PigeonPairs(n, hole, p1 + 1, p1 + 2)
    ELSE << <<-PigeonVar(n, p1, hole), -PigeonVar(n, p2, hole)>> >>
         \o PigeonPairs(n, hole, p1, p2 + 1)

RECURSIVE PigeonHoles(_, _)
PigeonHoles(n, hole) ==
    IF hole >= n THEN <<>>
    ELSE PigeonPairs(n, hole, 0, 1) \o PigeonHoles(n, hole + 1)

GeneratePigeonHole(n) ==
    [p \in 1..(n + 1) |-> [h \in 1..n |-> PigeonVar(n, p - 1, h - 1)]]
    \o PigeonHoles(n, 0)

PigeonSet == {GeneratePigeonHole(n) : n \in 1..MaxHoles}

\* the formulas the test suite solves (TestSATSolver)
TestSet ==
    { << <<1, 2>>, <<-1, 3>> >>,
      << <<1>>, <<-1>> >>,
      << >>,
      << <<1>>, <<1, 2>>, <<-1, 3>> >>,
      << <<1, 2>>, <<1, 3>> >>,
      << <<1, 2, 3>>, <<-1, 2, -3>>, <<-2, 3, 4>> >>,
      << <<1, -2>>, <<2, 3>>, <<-1, -3>>, <<1, 2, 3>> >>,
      << <<1, 2>>, <<-1, 3>>, <<-2, -3>> >> }

\* formulas whose true branch on variable 1 fails only after a unit
\* propagation and a failed nested branch on variable 3; in the second one
\* the false branch then succeeds
NestedSet ==
    { << <<-1, 2>>, <<1, -2>>, <<3, 3>>, <<-3, -3>> >>,
      << <<-1, 3, 3>>, <<-1, -3, -3>>, <<-1, 2>>, <<1, -2>> >> }

(* --------------------------- pure functions ---------------------------- *)
\* _simplify without the "continue" for a satisfied clause and with both
\* literals of the variable stripped
SimplifyStripsBoth(cnf, var, value) ==
    [i \in 1..Len(cnf) |-> SelectSeq(cnf[i], LAMBDA lit : Abs(lit) # var)]

\* _simplify deleting only the first occurrence of the refuted literal of
\* a clause, as list.remove does
SimplifyRemovesOnce(cnf, var, value) ==
    LET literal == IF value THEN var ELSE -var
        kept == SelectSeq(cnf, LAMBDA clause : ~Contains(clause, literal))
        first(c) == CHOOSE k \in DOMAIN c :
                        c[k] = -literal /\ \A j \in 1..(k - 1) : c[j] # -literal
    IN  [i \in 1..Len(kept) |->
            IF Contains(kept[i], -literal)
            THEN SubSeq(kept[i], 1, first(kept[i]) - 1)
                 \o SubSeq(kept[i], first(kept[i]) + 1, Len(kept[i]))
            ELSE kept[i]]

\* _simplify without the "continue": a satisfied clause is kept
SimplifyKeepsSatisfied(cnf, var, value) ==
    LET literal == IF value THEN var ELSE -var
    IN  [i \in 1..Len(cnf) |-> SelectSeq(cnf[i], LAMBDA lit : lit # -literal)]

\* _simplify appending the clause as it is: the refuted literal stays
SimplifyKeepsRefuted(cnf, var, value) ==
    LET literal == IF value THEN var ELSE -var
    IN  SelectSeq(cnf, LAMBDA clause : ~Contains(clause, literal))

\* SATSolver._simplify
Simplify(cnf, var, value) ==
    LET literal == IF value THEN var ELSE -var
        kept == SelectSeq(cnf, LAMBDA clause : ~Contains(clause, literal))
    IN  [i \in 1..Len(kept) |-> SelectSeq(kept[i], LAMBDA lit : lit # -literal)]

\* "all clauses are empty" in place of "some clause is empty"
HasEmptyClauseAll(cnf) == \A i \in DOMAIN cnf : Len(cnf[i]) = 0

\* [] in cnf
HasEmptyClause(cnf) == \E i \in DOMAIN cnf : Len(cnf[i]) = 0

\* One pass of the for loop of _unit_propagation: the index of the first
\* unit clause at which the loop leaves (conflict or assignment); a unit
\* clause whose variable already holds the forced value is passed over.
UnitStops(cnf, a) ==
    {i \in DOMAIN cnf :
        /\ Len(cnf[i]) = 1
        /\ ~(Abs(cnf[i][1]) \in DOMAIN a /\ a[Abs(cnf[i][1])] = (cnf[i][1] > 0))}

FirstUnit(cnf, a) ==
    IF UnitStops(cnf, a) = {} THEN None
    ELSE Some(CHOOSE i \in UnitStops(cnf, a) : \A j \in UnitStops(cnf, a) : i <= j)

\* every literal occurring in cnf
LiteralsOf(cnf) == UNION {{cnf[i][j] : j \in DOMAIN cnf[i]} : i \in DOMAIN cnf}

\* positive_vars of _pure_literal_elimination: literal > 0 adds literal
PositiveVars(cnf) == {l \in LiteralsOf(cnf) : l > 0}

\* negative_vars of _pure_literal_elimination: else adds -literal
NegativeVars(cnf) == {-l : l \in {m \in LiteralsOf(cnf) : ~(m > 0)}}

\* the set difference with its operands exchanged
PurePositiveSwapped(cnf) == NegativeVars(cnf) \ PositiveVars(cnf)

PurePositive(cnf) == PositiveVars(cnf) \ NegativeVars(cnf)

PureNegative(cnf) == NegativeVars(cnf) \ PositiveVars(cnf)

\* purity recomputed inside the pass: a variable that no longer occurs in
\* the current formula is passed over
PureAssignableIfOccurs(var, cnf, a) ==
    var \notin DOMAIN a /\ \E l \in LiteralsOf(cnf) : Abs(l) = var

\* the guard "if var not in assignment" of the two loops of the pass
PureAssignable(var, cnf, a) == var \notin DOMAIN a

\* SATSolver._choose_variable: positions of literals of unassigned variables
UnassignedAt(cnf, a) ==
    {p \in UNION {{<<i, j>> : j \in DOMAIN cnf[i]} : i \in DOMAIN cnf} :
        Abs(cnf[p[1]][p[2]]) \notin DOMAIN a}

ChooseVariable(cnf, a) ==
    IF UnassignedAt(cnf, a) = {} THEN None
    ELSE LET p == CHOOSE q \in UnassignedAt(cnf, a) :
                    \A r \in UnassignedAt(cnf, a) :
                        q[1] < r[1] \/ (q[1] = r[1] /\ q[2] <= r[2])
         IN  Some(Abs(cnf[p[1]][p[2]]))

(* ------------------------------- state --------------------------------- *)
\* a call frame of _dpll: its locals cnf, assignment, var, the two sets the
\* pure-literal pass iterates over (what is left of them), the conflict
\* flag of _unit_propagation's return, and the position in the body.
\* While _pure_literal_elimination runs, cnf is the local its loops rebind
\* and scanned is the argument its scan read, which _dpll's own cnf still
\* names until the pass returns.
Frame(cnf, a) ==
    [cnf |-> cnf, assignment |-> a, pc |-> "entry", var |-> 0,
     conflict |-> FALSE, pure_positive |-> {}, pure_negative |-> {},
     scanned |-> <<>>]

Top == stack[Len(stack)]

Rest == SubSeq(stack, 1, Len(stack) - 1)

SetTop(f) == [stack EXCEPT ![Len(stack)] = f]

\* SATSolver.__init__ on a formula of the input space
Init ==
    /\ original_cnf \in FormulaSet \cup PigeonSet \cup TestSet \cup NestedSet
    /\ assignment = EmptyDict
    /\ decisions = <<>>
    /\ stack = <<>>
    /\ ret = "none"
    /\ status = "idle"
    /\ results = <<>>
    /\ instance = 1

\* a second solver built from an equal formula
Construct ==
    /\ status = "idle"
    /\ Len(results) < MaxCalls
    /\ \E i \in DOMAIN results : results[i].instance = instance
    /\ instance' = instance + 1
    /\ assignment' = EmptyDict
    /\ decisions' = <<>>
    /\ UNCHANGED <<original_cnf, stack, ret, status, results>>

\* solve() clearing the decision log before each search
SolveResetsLog ==
    /\ status = "idle"
    /\ Len(results) < MaxCalls
    /\ status' = "running"
    /\ stack' = <<Frame(Deepcopy(original_cnf), EmptyDict)>>
    /\ ret' = "none"
    /\ decisions' = <<>>
    /\ UNCHANGED <<original_cnf, assignment, results, instance>>

\* solve(): result = self._dpll(deepcopy(self.original_cnf), {})
Solve ==
    /\ status = "idle"
    /\ Len(results) < MaxCalls
    /\ status' = "running"
    /\ stack' = <<Frame(Deepcopy(original_cnf), EmptyDict)>>
    /\ ret' = "none"
    /\ UNCHANGED <<original_cnf, assignment, decisions, results, instance>>

\* _dpll, the two base cases
DpllEntry ==
    /\ status = "running" /\ stack # <<>> /\ Top.pc = "entry"
    /\ IF Top.cnf = <<>>
       THEN /\ assignment' = Top.assignment
            /\ stack' = Rest
            /\ ret' = "True"
       ELSE IF HasEmptyClause(Top.cnf)
       THEN /\ stack' = Rest
            /\ ret' = "False"
            /\ UNCHANGED assignment
       ELSE /\ stack' = SetTop([Top EXCEPT !.pc = "unit"])
            /\ UNCHANGED <<assignment, ret>>
    /\ UNCHANGED <<original_cnf, decisions, status, results, instance>>

\* unit propagation simplifying the stored formula in place: the outermost
\* call works on self.original_cnf itself instead of a copy
UnitPropagationInPlace ==
    /\ status = "running" /\ stack # <<>> /\ Top.pc = "unit"
    /\ LET u == FirstUnit(Top.cnf, Top.assignment)
       IN  IF u = None
           THEN /\ stack' = SetTop([Top EXCEPT !.pc = "unit_done"])
                /\ UNCHANGED <<decisions, original_cnf>>
           ELSE LET literal == Top.cnf[u[1]][1]
                    var == Abs(literal)
                    value == literal > 0
                IN  IF var \in DOMAIN Top.assignment
                    THEN /\ stack' = SetTop([Top EXCEPT !.pc = "unit_done",
                                                        !.conflict = TRUE])
                         /\ UNCHANGED <<decisions, original_cnf>>
                    ELSE /\ stack' = SetTop([Top EXCEPT
                                !.assignment = DictSet(Top.assignment, var, value),
                                !.cnf = Simplify(Top.cnf, var, value)])
                         /\ decisions' = Append(decisions, <<var, value, "unit_propagation">>)
                         /\ original_cnf' = IF Len(stack) = 1
                                            THEN Simplify(Top.cnf, var, value)
                                            ELSE original_cnf
    /\ UNCHANGED <<assignment, ret, status, results, instance>>

\* unit propagation that never sets "changed": the while loop makes one
\* pass and returns after the first assignment
UnitPropagationOnePass ==
    /\ status = "running" /\ stack # <<>> /\ Top.pc = "unit"
    /\ LET u == FirstUnit(Top.cnf, Top.assignment)
       IN  IF u = None
           THEN /\ stack' = SetTop([Top EXCEPT !.pc = "unit_done"])
                /\ UNCHANGED decisions
           ELSE LET literal == Top.cnf[u[1]][1]
                    var == Abs(literal)
                    value == literal > 0
                IN  IF var \in DOMAIN Top.assignment
                    THEN /\ stack' = SetTop([Top EXCEPT !.pc = "unit_done",
                                                        !.conflict = TRUE])
                         /\ UNCHANGED decisions
                    ELSE /\ stack' = SetTop([Top EXCEPT
                                !.assignment = DictSet(Top.assignment, var, value),
                                !.cnf = Simplify(Top.cnf, var, value),
                                !.pc = "unit_done"])
                         /\ decisions' = Append(decisions, <<var, value, "unit_propagation">>)
    /\ UNCHANGED <<original_cnf, assignment, ret, status, results, instance>>

\* unit propagation that sets "changed" and leaves the for loop on a unit
\* clause without assigning its variable or simplifying
UnitPropagationSkipsWrite ==
    /\ status = "running" /\ stack # <<>> /\ Top.pc = "unit"
    /\ LET u == FirstUnit(Top.cnf, Top.assignment)
       IN  IF u = None
           THEN /\ stack' = SetTop([Top EXCEPT !.pc = "unit_done"])
                /\ UNCHANGED decisions
           ELSE LET literal == Top.cnf[u[1]][1]
                    var == Abs(literal)
                IN  IF var \in DOMAIN Top.assignment
                    THEN /\ stack' = SetTop([Top EXCEPT !.pc = "unit_done",
                                                        !.conflict = TRUE])
                         /\ UNCHANGED decisions
                    ELSE UNCHANGED <<stack, decisions>>
    /\ UNCHANGED <<original_cnf, assignment, ret, status, results, instance>>

\* _unit_propagation, one pass of the while loop: the for loop runs to the
\* first unit clause that conflicts or whose variable is unassigned
UnitPropagation ==
    /\ status = "running" /\ stack # <<>> /\ Top.pc = "unit"
    /\ LET u == FirstUnit(Top.cnf, Top.assignment)
       IN  IF u = None
           THEN /\ stack' = SetTop([Top EXCEPT !.pc = "unit_done"])
                /\ UNCHANGED decisions
           ELSE LET literal == Top.cnf[u[1]][1]
                    var == Abs(literal)
                    value == literal > 0
                IN  IF var \in DOMAIN Top.assignment
                    THEN /\ stack' = SetTop([Top EXCEPT !.pc = "unit_done",
                                                        !.conflict = TRUE])
                         /\ UNCHANGED decisions
                    ELSE /\ stack' = SetTop([Top EXCEPT
                                !.assignment = DictSet(Top.assignment, var, value),
                                !.cnf = Simplify(Top.cnf, var, value)])
                         /\ decisions' = Append(decisions, <<var, value, "unit_propagation">>)
    /\ UNCHANGED <<original_cnf, assignment, ret, status, results, instance>>

\* _dpll after _unit_propagation returned: conflict, satisfied, or go on
DpllAfterUnit ==
    /\ status = "running" /\ stack # <<>> /\ Top.pc = "unit_done"
    /\ IF Top.conflict
       THEN /\ stack' = Rest
            /\ ret' = "False"
            /\ UNCHANGED assignment
       ELSE IF Top.cnf = <<>>
       THEN /\ assignment' = Top.assignment
            /\ stack' = Rest
            /\ ret' = "True"
       ELSE /\ stack' = SetTop([Top EXCEPT !.pc = "pure"])
            /\ UNCHANGED <<assignment, ret>>
    /\ UNCHANGED <<original_cnf, decisions, status, results, instance>>

\* _pure_literal_elimination, the scan and the two set differences
PureLiteralScan ==
    /\ status = "running" /\ stack # <<>> /\ Top.pc = "pure"
    /\ LET pp == PurePositive(Top.cnf)
           pn == PureNegative(Top.cnf)
       IN  stack' = SetTop([Top EXCEPT
                !.scanned = Top.cnf,
                !.pure_positive = pp,
                !.pure_negative = pn,
                !.pc = IF pp # {} THEN "pure_pos"
                       ELSE IF pn # {} THEN "pure_neg" ELSE "pure_done"])
    /\ UNCHANGED <<original_cnf, assignment, decisions, ret, status, results, instance>>

\* purity recomputed literal by literal: after each assignment the two sets
\* are computed again from the formula just simplified
PurePositiveStepRescans ==
    /\ status = "running" /\ stack # <<>> /\ Top.pc = "pure_pos"
    /\ \E var \in Top.pure_positive :
          LET assign == PureAssignable(var, Top.cnf, Top.assignment)
              cnf == IF assign THEN Simplify(Top.cnf, var, TRUE) ELSE Top.cnf
              left == PurePositive(cnf) \ {var}
              neg == PureNegative(cnf)
              next == IF left # {} THEN "pure_pos"
                      ELSE IF neg # {} THEN "pure_neg" ELSE "pure_done"
          IN  IF assign
              THEN /\ stack' = SetTop([Top EXCEPT
                            !.assignment = DictSet(Top.assignment, var, TRUE),
                            !.cnf = cnf,
                            !.pure_positive = left, !.pure_negative = neg,
                            !.pc = next])
                   /\ decisions' = Append(decisions, <<var, TRUE, "pure_literal">>)
              ELSE /\ stack' = SetTop([Top EXCEPT !.pure_positive = left,
                                                  !.pure_negative = neg, !.pc = next])
                   /\ UNCHANGED decisions
    /\ UNCHANGED <<original_cnf, assignment, ret, status, results, instance>>

\* one iteration of "for var in pure_positive"; a set is iterated in an
\* order the language leaves open
PurePositiveStep ==
    /\ status = "running" /\ stack # <<>> /\ Top.pc = "pure_pos"
    /\ \E var \in Top.pure_positive :
          LET left == Top.pure_positive \ {var}
              next == IF left # {} THEN "pure_pos"
                      ELSE IF Top.pure_negative # {} THEN "pure_neg" ELSE "pure_done"
          IN  IF PureAssignable(var, Top.cnf, Top.assignment)
              THEN /\ stack' = SetTop([Top EXCEPT
                            !.assignment = DictSet(Top.assignment, var, TRUE),
                            !.cnf = Simplify(Top.cnf, var, TRUE),
                            !.pure_positive = left, !.pc = next])
                   /\ decisions' = Append(decisions, <<var, TRUE, "pure_literal">>)
              ELSE /\ stack' = SetTop([Top EXCEPT !.pure_positive = left, !.pc = next])
                   /\ UNCHANGED decisions
    /\ UNCHANGED <<original_cnf, assignment, ret, status, results, instance>>

\* one iteration of "for var in pure_negative"
PureNegativeStep ==
    /\ status = "running" /\ stack # <<>> /\ Top.pc = "pure_neg"
    /\ \E var \in Top.pure_negative :
          LET left == Top.pure_negative \ {var}
              next == IF left # {} THEN "pure_neg" ELSE "pure_done"
          IN  IF PureAssignable(var, Top.cnf, Top.assignment)
              THEN /\ stack' = SetTop([Top EXCEPT
                            !.assignment = DictSet(Top.assignment, var, FALSE),
                            !.cnf = Simplify(Top.cnf, var, FALSE),
                            !.pure_negative = left, !.pc = next])
                   /\ decisions' = Append(decisions, <<var, FALSE, "pure_literal">>)
              ELSE /\ stack' = SetTop([Top EXCEPT !.pure_negative = left, !.pc = next])
                   /\ UNCHANGED decisions
    /\ UNCHANGED <<original_cnf, assignment, ret, status, results, instance>>

\* the true value of the branch variable written into the call's own
\* assignment before it is copied for the branch
DpllBranchWritesOwnAssignment ==
    /\ status = "running" /\ stack # <<>> /\ Top.pc = "pure_done"
    /\ LET chosen == ChooseVariable(Top.cnf, Top.assignment)
       IN  IF Top.cnf = <<>> \/ chosen = None
           THEN /\ assignment' = Top.assignment
                /\ stack' = Rest
                /\ ret' = "True"
                /\ UNCHANGED decisions
           ELSE LET var == chosen[1]
                IN  /\ stack' = Append(SetTop([Top EXCEPT
                                            !.assignment = DictSet(Top.assignment, var, TRUE),
                                            !.var = var, !.pc = "wait_true"]),
                                       Frame(Simplify(Top.cnf, var, TRUE),
                                             DictSet(Top.assignment, var, TRUE)))
                    /\ decisions' = Append(decisions, <<var, TRUE, "branch">>)
                    /\ UNCHANGED <<assignment, ret>>
    /\ UNCHANGED <<original_cnf, status, results, instance>>

\* _dpll after the pure-literal pass: satisfied, no variable left, or the
\* true branch: new_assignment, new_cnf, log, recursive call
DpllBranch ==
    /\ status = "running" /\ stack # <<>> /\ Top.pc = "pure_done"
    /\ LET chosen == ChooseVariable(Top.cnf, Top.assignment)
       IN  IF Top.cnf = <<>> \/ chosen = None
           THEN /\ assignment' = Top.assignment
                /\ stack' = Rest
                /\ ret' = "True"
                /\ UNCHANGED decisions
           ELSE LET var == chosen[1]
                IN  /\ stack' = Append(SetTop([Top EXCEPT !.var = var, !.pc = "wait_true"]),
                                       Frame(Simplify(Top.cnf, var, TRUE),
                                             DictSet(Top.assignment, var, TRUE)))
                    /\ decisions' = Append(decisions, <<var, TRUE, "branch">>)
                    /\ UNCHANGED <<assignment, ret>>
    /\ UNCHANGED <<original_cnf, status, results, instance>>

\* the false branch built from the true branch's formula new_cnf instead of
\* the call's own cnf
DpllTrueReturnedReusesNewCnf ==
    /\ status = "running" /\ stack # <<>> /\ Top.pc = "wait_true" /\ ret # "none"
    /\ IF ret = "True"
       THEN /\ stack' = Rest
            /\ UNCHANGED <<ret, decisions>>
       ELSE /\ stack' = Append(SetTop([Top EXCEPT !.pc = "wait_false"]),
                               Frame(Simplify(Simplify(Top.cnf, Top.var, TRUE), Top.var, FALSE),
                                     DictSet(Top.assignment, Top.var, FALSE)))
            /\ decisions' = Append(decisions, <<Top.var, FALSE, "backtrack">>)
            /\ ret' = "none"
    /\ UNCHANGED <<original_cnf, assignment, status, results, instance>>

\* the false branch tried whatever the true branch returned
DpllTrueReturnedTriesBoth ==
    /\ status = "running" /\ stack # <<>> /\ Top.pc = "wait_true" /\ ret # "none"
    /\ stack' = Append(SetTop([Top EXCEPT !.pc = "wait_false"]),
                       Frame(Simplify(Top.cnf, Top.var, FALSE),
                             DictSet(Top.assignment, Top.var, FALSE)))
    /\ decisions' = Append(decisions, <<Top.var, FALSE, "backtrack">>)
    /\ ret' = "none"
    /\ UNCHANGED <<original_cnf, assignment, status, results, instance>>

\* the true branch returned: success goes up, failure starts the false branch
DpllTrueReturned ==
    /\ status = "running" /\ stack # <<>> /\ Top.pc = "wait_true" /\ ret # "none"
    /\ IF ret = "True"
       THEN /\ stack' = Rest
            /\ UNCHANGED <<ret, decisions>>
       ELSE /\ stack' = Append(SetTop([Top EXCEPT !.pc = "wait_false"]),
                               Frame(Simplify(Top.cnf, Top.var, FALSE),
                                     DictSet(Top.assignment, Top.var, FALSE)))
            /\ decisions' = Append(decisions, <<Top.var, FALSE, "backtrack">>)
            /\ ret' = "none"
    /\ UNCHANGED <<original_cnf, assignment, status, results, instance>>

\* the false branch returned: its result is the call's result
DpllFalseReturned ==
    /\ status = "running" /\ stack # <<>> /\ Top.pc = "wait_false" /\ ret # "none"
    /\ stack' = Rest
    /\ UNCHANGED <<original_cnf, assignment, decisions, ret, status, results, instance>>

\* solve() returns (True, self.assignment) or (False, None)
SolveReturn ==
    /\ status = "running" /\ stack = <<>> /\ ret # "none"
    /\ results' = Append(results,
            [instance |-> instance,
             sat |-> (ret = "True"),
             assignment |-> IF ret = "True" THEN Some(assignment) ELSE None,
             total_decisions |-> Len(decisions)])
    /\ status' = "idle"
    /\ ret' = "none"
    /\ UNCHANGED <<original_cnf, assignment, decisions, stack, instance>>

\* sum(1 for _, _, reason in self.decisions if reason == r)
CountReason(r) == Cardinality({i \in DOMAIN decisions : decisions[i][3] = r})

\* get_statistics with the backtrack count filtered on a misspelt reason
GetStatisticsMisspelt ==
    [total_decisions |-> Len(decisions),
     unit_propagations |-> CountReason("unit_propagation"),
     pure_literals |-> CountReason("pure_literal"),
     branches |-> CountReason("branch"),
     backtracks |-> CountReason("backtracks"),
     clauses |-> Len(original_cnf),
     variables |-> Cardinality(DOMAIN assignment)]

\* SATSolver.get_statistics: a read-only aggregation of the log
GetStatistics ==
    [total_decisions |-> Len(decisions),
     unit_propagations |-> CountReason("unit_propagation"),
     pure_literals |-> CountReason("pure_literal"),
     branches |-> CountReason("branch"),
     backtracks |-> CountReason("backtrack"),
     clauses |-> Len(original_cnf),
     variables |-> Cardinality(DOMAIN assignment)]

Next ==
    \/ Construct
    \/ Solve
    \/ DpllEntry
    \/ UnitPropagation
    \/ DpllAfterUnit
    \/ PureLiteralScan
    \/ PurePositiveStep
    \/ PureNegativeStep
    \/ DpllBranch
    \/ DpllTrueReturned
    \/ DpllFalseReturned
    \/ SolveReturn

Spec == Init /\ [][Next]_vars

\* the steps of a running solve() call: the interpreter runs the call to
\* its return without suspension; when solve() is called, and whether a
\* second solver is built, is the caller's choice
SolveStep ==
    \/ DpllEntry
    \/ UnitPropagation
    \/ DpllAfterUnit
    \/ PureLiteralScan
    \/ PurePositiveStep
    \/ PureNegativeStep
    \/ DpllBranch
    \/ DpllTrueReturned
    \/ DpllFalseReturned
    \/ SolveReturn

SpecTerminating == Init /\ [][Next]_vars /\ WF_vars(SolveStep)

\* __init__ stores any list of lists of integers: the formulas in which
\* some clause holds the literal 0
LiteralsWithZero == -NumVars..NumVars

MalformedSet ==
    {f \in UNION {[1..n -> UNION {[1..k -> LiteralsWithZero] : k \in 0..MaxClauseLen}]
                    : n \in 0..MaxClauses} :
        \E i \in DOMAIN f : \E j \in DOMAIN f[i] : f[i][j] = 0}

InitMalformed ==
    /\ original_cnf \in MalformedSet
    /\ assignment = EmptyDict
    /\ decisions = <<>>
    /\ stack = <<>>
    /\ ret = "none"
    /\ status = "idle"
    /\ results = <<>>
    /\ instance = 1

SpecMalformed == InitMalformed /\ [][Next]_vars

(* ------------------------ reference notions ---------------------------- *)
\* TestSATSolver._verify_assignment: every clause has a literal the
\* assignment makes true
VerifyAssignment(cnf, a) ==
    \A i \in DOMAIN cnf :
        \E j \in DOMAIN cnf[i] :
            /\ Abs(cnf[i][j]) \in DOMAIN a
            /\ a[Abs(cnf[i][j])] = (cnf[i][j] > 0)

VariablesOf(cnf) == {Abs(l) : l \in LiteralsOf(cnf)}

\* brute-force enumeration of all 2^n total assignments
BruteForce(cnf) == \E a \in [VariablesOf(cnf) -> BOOLEAN] : VerifyAssignment(cnf, a)

\* the literals unit resolution forces, starting from the unit clauses: a
\* clause whose other literals are all refuted forces its remaining literal
RECURSIVE Forced(_, _)
Forced(cnf, S) ==
    LET new == {l \in LiteralsOf(cnf) :
                   \E i \in DOMAIN cnf :
                       /\ Contains(cnf[i], l)
                       /\ \A j \in DOMAIN cnf[i] : cnf[i][j] = l \/ -cnf[i][j] \in S}
    IN  IF new \subseteq S THEN S ELSE Forced(cnf, S \cup new)

HasUnitClause(cnf) == \E i \in DOMAIN cnf : Len(cnf[i]) = 1

\* the formula has a clause without literals
ContainsEmptyClause(cnf) == \E i \in DOMAIN cnf : cnf[i] = <<>>

\* the reasons logged so far
Reasons == {decisions[i][3] : i \in DOMAIN decisions}

(* ------------------------------- claims -------------------------------- *)
\* C1: soundness - whenever solve() returns (True, A), every clause of the
\* original formula contains a literal l with A[|l|] = (l > 0).
Soundness ==
    \A i \in DOMAIN results :
        results[i].sat => VerifyAssignment(original_cnf, results[i].assignment[1])

\* C2: completeness - the boolean solve() returns equals the result of
\* brute-force enumeration over all total assignments.
Completeness ==
    \A i \in DOMAIN results : results[i].sat = BruteForce(original_cnf)

\* C3: solve() returns (False, None) only for formulas that have no
\* satisfying assignment.
UnsatOnlyIfUnsatisfiable ==
    \A i \in DOMAIN results :
        ~results[i].sat => (results[i].assignment = None /\ ~BruteForce(original_cnf))

\* C3 witness: an unsatisfiable answer reached after both polarities of a
\* branch variable were exhausted
UnsatAfterBacktrack ==
    /\ results # <<>>
    /\ ~results[Len(results)].sat
    /\ "backtrack" \in Reasons

\* C4: conflict detection - a formula holding both the unit clause [v] and
\* the unit clause [-v] makes solve() return (False, None).
ConflictDetection ==
    \A i \in DOMAIN results :
        (\E j, k \in DOMAIN original_cnf :
            /\ Len(original_cnf[j]) = 1 /\ Len(original_cnf[k]) = 1
            /\ original_cnf[j][1] = -original_cnf[k][1])
        => (~results[i].sat /\ results[i].assignment = None)

\* C5: pigeonhole - solve() on generate_pigeon_hole(n), n >= 1, returns
\* unsatisfiable.
PigeonHoleUnsat ==
    \A i \in DOMAIN results :
        original_cnf \in PigeonSet => ~results[i].sat

\* C6: a formula containing an empty clause makes solve() return
\* (False, None) and no record is appended to the decision log.
EmptyClauseFails ==
    ContainsEmptyClause(original_cnf) =>
        /\ decisions = <<>>
        /\ \A i \in DOMAIN results : ~results[i].sat /\ results[i].assignment = None

\* C6 witness: a completed solve() of a formula with an empty clause among
\* other clauses
EmptyClauseSolved ==
    /\ results # <<>>
    /\ ContainsEmptyClause(original_cnf)
    /\ HasUnitClause(original_cnf)

\* C7: unit propagation correctness - if the formula has a unit clause [l]
\* and solve() reports satisfiable with A, then A[|l|] = (l > 0), and so for
\* every literal unit propagation forces transitively from the unit clauses.
UnitPropagationCorrect ==
    \A i \in DOMAIN results :
        results[i].sat =>
            \A l \in Forced(original_cnf, {}) :
                /\ Abs(l) \in DOMAIN results[i].assignment[1]
                /\ results[i].assignment[1][Abs(l)] = (l > 0)

\* C8: pure literal correctness - for a formula with no empty clause and no
\* unit clause, a satisfiable answer assigns every variable that occurs with
\* a single polarity in the input the value of that polarity.
PureLiteralCorrect ==
    \A i \in DOMAIN results :
        (results[i].sat /\ ~ContainsEmptyClause(original_cnf) /\ ~HasUnitClause(original_cnf)) =>
            /\ \A v \in PositiveVars(original_cnf) \ NegativeVars(original_cnf) :
                   v \in DOMAIN results[i].assignment[1] /\ results[i].assignment[1][v]
            /\ \A v \in NegativeVars(original_cnf) \ PositiveVars(original_cnf) :
                   v \in DOMAIN results[i].assignment[1] /\ ~results[i].assignment[1][v]

\* C8 witness: a satisfiable answer for a formula without unit or empty
\* clauses that has a variable of one polarity and a variable of both
PureLiteralSolved ==
    /\ results # <<>>
    /\ results[Len(results)].sat
    /\ ~ContainsEmptyClause(original_cnf) /\ ~HasUnitClause(original_cnf)
    /\ PositiveVars(original_cnf) \ NegativeVars(original_cnf) # {}
    /\ NegativeVars(original_cnf) \ PositiveVars(original_cnf) # {}
    /\ PositiveVars(original_cnf) \cap NegativeVars(original_cnf) # {}

\* C9: determinism - solvers built from equal formulas return the same
\* satisfiable flag and, when satisfiable, the same assignment, whatever
\* order the pure-literal pass visits the pure variables in.
Determinism ==
    \A i, j \in DOMAIN results :
        /\ results[i].sat = results[j].sat
        /\ results[i].assignment = results[j].assignment

\* C9 witness: two solver instances have answered satisfiable and the second
\* one's pure-literal pass had more than one variable to visit
TwoInstancesSolved ==
    /\ Len(results) >= 2
    /\ results[1].instance # results[2].instance
    /\ results[2].sat
    /\ Cardinality({i \in DOMAIN decisions : decisions[i][3] = "pure_literal"}) >= 2

\* C10: solve() leaves the stored original formula unchanged - no step of
\* any solve() call changes original_cnf.
OriginalUnchanged == [][original_cnf' = original_cnf]_vars

\* C10 witness: a second solve() on the same instance has completed after
\* simplifications were made
SolvedTwice ==
    /\ Len(results) >= 2
    /\ results[1].instance = results[2].instance
    /\ decisions # <<>>
    /\ original_cnf # <<>>

\* the answers of the solve() calls made on the instance that gave answer i,
\* up to and including answer i
CallsBefore(i) == {j \in 1..i : results[j].instance = results[i].instance}

FirstCall(i) == CHOOSE j \in CallsBefore(i) : \A k \in CallsBefore(i) : j <= k

\* how often record r occurs in the log between positions from and to
Occurrences(r, from, to) ==
    Cardinality({p \in from..to : p \in DOMAIN decisions /\ decisions[p] = r})

StatisticsInvariant ==
    (status = "idle" /\ results # <<>>) =>
        /\ GetStatistics.total_decisions =
              GetStatistics.unit_propagations + GetStatistics.pure_literals
              + GetStatistics.branches + GetStatistics.backtracks
        /\ \A i \in DOMAIN decisions :
              decisions[i][3] \in {"unit_propagation", "pure_literal", "branch", "backtrack"}

\* C12 witness: two solve() calls have completed on one instance and the log
\* holds pure-literal, branch and backtrack records
StatisticsAfterBacktrack ==
    /\ status = "idle"
    /\ Len(results) >= 2
    /\ results[Len(results)].instance = results[1].instance
    /\ {"pure_literal", "branch", "backtrack"} \subseteq Reasons

\* C13: a formula in which some clause contains the literal 0 is rejected
\* at construction or when solve() first touches the literal; it is never
\* treated as a variable 0 and solved to a yes/no answer.  Without an empty
\* clause the search reads the literals, so no solve() call on such a
\* formula returns a (satisfiable, assignment) pair.
ZeroLiteralRejected ==
    ((\E i \in DOMAIN original_cnf : Contains(original_cnf[i], 0))
        /\ ~ContainsEmptyClause(original_cnf))
    => results = <<>>

\* C14: whenever a simplification made during unit propagation leaves an
\* empty clause in the formula, the call returns failure for that branch:
\* its next step is the return of False, before the pure-literal pass and
\* before the branching and termination checks.
EmptyClauseAfterPropagationFails ==
    [][(status = "running" /\ stack # <<>>
          /\ Top.pc \in {"unit", "unit_done"}
          /\ ContainsEmptyClause(Top.cnf))
       => (stack' = Rest /\ ret' = "False")]_vars

\* C15: whenever a call returns success because its formula is non-empty
\* but _choose_variable finds no unassigned variable, the assignment of the
\* call satisfies every clause of the original formula.
NoVariableLeftIsSatisfied ==
    (status = "running" /\ stack # <<>>
        /\ Top.pc = "pure_done"
        /\ Top.cnf # <<>>
        /\ ChooseVariable(Top.cnf, Top.assignment) = None)
    => VerifyAssignment(original_cnf, Top.assignment)

\* assignment b is assignment a with the one more entry var |-> value
ExtendsBy(b, a, var, value) ==
    /\ var \notin DOMAIN a
    /\ DOMAIN b = (DOMAIN a) \cup {var}
    /\ b[var] = value
    /\ \A x \in DOMAIN a : b[x] = a[x]

\* C16: sibling isolation - the formula and the assignment of a call that
\* waits for a branch do not change while the branch runs; the true branch
\* starts from them with the branch variable true, and after its failure
\* the false branch starts from the same formula and assignment with only
\* the branch variable false.
SiblingIsolation ==
    [][/\ \A i \in 1..(Len(stack) - 1) :
             i \in DOMAIN stack' =>
                 /\ stack'[i].cnf = stack[i].cnf
                 /\ stack'[i].assignment = stack[i].assignment
                 /\ stack'[i].var = stack[i].var
       /\ (status = "running" /\ Len(stack') = Len(stack) + 1 /\ stack # <<>>) =>
             LET parent == stack'[Len(stack)]
                 child == stack'[Len(stack')]
             IN  /\ parent.cnf = Top.cnf
                 /\ parent.assignment = Top.assignment
                 /\ child.cnf = Simplify(parent.cnf, parent.var, Top.pc = "pure_done")
                 /\ ExtendsBy(child.assignment, parent.assignment, parent.var,
                              Top.pc = "pure_done")
                 /\ Top.pc = "wait_true" => (parent.var = Top.var /\ ret = "False")
      ]_vars

\* C16 witness: a false branch is starting after a true branch that failed
\* only after further decisions were made inside it
FalseBranchAfterDeepFailure ==
    /\ Len(stack) >= 2
    /\ Top.pc = "entry"
    /\ stack[Len(stack) - 1].pc = "wait_false"
    /\ Len(decisions) >= 3
    /\ decisions[Len(decisions)][3] = "backtrack"
    /\ decisions[Len(decisions) - 1][3] # "branch"

\* C17: branch ordering - a branch variable v is tried with true first,
\* logged (v, True, branch); the false branch is started, logged
\* (v, False, backtrack), exactly when the true branch returned failure;
\* once a recursive call has returned success no branch is started and no
\* record is appended until solve() returns.
BranchOrdering ==
    [][/\ (Len(decisions') > Len(decisions) /\ decisions'[Len(decisions')][3] = "branch") =>
             /\ stack # <<>> /\ Top.pc = "pure_done"
             /\ Len(stack') = Len(stack) + 1
             /\ decisions' = Append(decisions, <<stack'[Len(stack)].var, TRUE, "branch">>)
       /\ (status = "running" /\ stack # <<>> /\ Top.pc = "wait_true" /\ ret = "False") =>
             /\ decisions' = Append(decisions, <<Top.var, FALSE, "backtrack">>)
             /\ Len(stack') = Len(stack) + 1
             /\ \E p \in DOMAIN decisions : decisions[p] = <<Top.var, TRUE, "branch">>
       /\ (Len(decisions') > Len(decisions) /\ decisions'[Len(decisions')][3] = "backtrack") =>
             (stack # <<>> /\ Top.pc = "wait_true" /\ ret = "False")
       /\ (status = "running" /\ ret = "True") =>
             /\ decisions' = decisions
             /\ Len(stack') <= Len(stack)
             /\ stack # <<>> => Len(stack') < Len(stack)
      ]_vars

\* C17 witness: solve() answered satisfiable from a false branch, after the
\* true branch of the same variable had failed
SolvedInFalseBranch ==
    /\ status = "idle"
    /\ results # <<>>
    /\ results[Len(results)].sat
    /\ \E p \in DOMAIN decisions :
          /\ decisions[p][3] = "backtrack"
          /\ results[Len(results)].assignment[1][decisions[p][1]] = FALSE

\* clause with every occurrence of literal x deleted, the rest in order
RECURSIVE WithoutLiteral(_, _)
WithoutLiteral(clause, x) ==
    IF clause = <<>> THEN <<>>
    ELSE IF Head(clause) = x THEN WithoutLiteral(Tail(clause), x)
    ELSE <<Head(clause)>> \o WithoutLiteral(Tail(clause), x)

\* the clauses of F that do not contain l, in order, each without -l
RECURSIVE Simplified(_, _)
Simplified(F, l) ==
    IF F = <<>> THEN <<>>
    ELSE IF \E j \in DOMAIN Head(F) : Head(F)[j] = l THEN Simplified(Tail(F), l)
    ELSE <<WithoutLiteral(Head(F), -l)>> \o Simplified(Tail(F), l)

\* C18: for every formula F, variable v and value b, with l = v if b else
\* -v, _simplify(F, v, b) is exactly the clauses of F that do not contain l,
\* in their order, each with every occurrence of -l removed and its other
\* literals in their order.  F ranges over the stored formula and the
\* formula of every call of the search.
SimplifyResult ==
    \A F \in {original_cnf} \cup {stack[i].cnf : i \in DOMAIN stack} :
        \A v \in VariablesOf(original_cnf) \cup (1..NumVars) :
            \A b \in BOOLEAN :
                Simplify(F, v, b) = Simplified(F, IF b THEN v ELSE -v)

\* C18 witness: a branch has just simplified a formula, dropping a clause
\* and shortening another one to a clause that is not empty
SimplifiedByBranch ==
    /\ Len(stack) >= 2
    /\ Top.pc = "entry"
    /\ stack[Len(stack) - 1].pc = "wait_true"
    /\ Len(Top.cnf) > 0
    /\ Len(Top.cnf) < Len(stack[Len(stack) - 1].cnf)
    /\ \E i \in DOMAIN Top.cnf :
          /\ Top.cnf[i] # <<>>
          /\ \A j \in DOMAIN stack[Len(stack) - 1].cnf :
                stack[Len(stack) - 1].cnf[j] # Top.cnf[i]

\* the number of literal-occurrences of variable v in formula F
OccurrencesOf(v, F) ==
    Cardinality({p \in UNION {{<<i, j>> : j \in DOMAIN F[i]} : i \in DOMAIN F} :
                    F[p[1]][p[2]] = v \/ F[p[1]][p[2]] = -v})

\* a step that appends a record (v, b, reason) simplifies the formula of the
\* running call with respect to (v, b); the result is the formula of the
\* call that is running after the step
SimplifiedVar == decisions'[Len(decisions')][1]

\* C19 as claimed: every simplification of a formula F with respect to
\* (v, b), those of the pure-literal pass included, yields a formula with
\* strictly fewer literal-occurrences of v than F.
StrictlyFewerOccurrences ==
    [][(status = "running" /\ Len(decisions') = Len(decisions) + 1) =>
          OccurrencesOf(SimplifiedVar, stack'[Len(stack')].cnf)
              < OccurrencesOf(SimplifiedVar, Top.cnf)]_vars

\* C19 amended: the result has strictly fewer literal-occurrences of v than
\* F whenever v occurs in F, and none when v does not occur in F.
FewerOrNoOccurrences ==
    [][(status = "running" /\ Len(decisions') = Len(decisions) + 1) =>
          IF OccurrencesOf(SimplifiedVar, Top.cnf) > 0
          THEN OccurrencesOf(SimplifiedVar, stack'[Len(stack')].cnf)
                   < OccurrencesOf(SimplifiedVar, Top.cnf)
          ELSE OccurrencesOf(SimplifiedVar, stack'[Len(stack')].cnf) = 0]_vars

\* C19 witness: the pure-literal pass has assigned two variables of a
\* formula of one clause, so the second simplification was of a formula in
\* which its variable no longer occurred
PureVariableAlreadyGone ==
    /\ status = "running"
    /\ Len(original_cnf) = 1
    /\ Len(decisions) >= 2
    /\ decisions[1][3] = "pure_literal"
    /\ decisions[2][3] = "pure_literal"

\* C20: unit propagation reaches a fixpoint - when _unit_propagation
\* returns a formula (no conflict) the formula has no clause of length one;
\* every variable it adds to the assignment is the variable of a unit clause
\* of the formula current at that moment, gets the value that makes the unit
\* literal true, and is logged with reason unit_propagation.
UnitPropagationFixpoint ==
    [][/\ (status' = "running" /\ stack' # <<>>
             /\ stack'[Len(stack')].pc = "unit_done"
             /\ ~stack'[Len(stack')].conflict) =>
             \A i \in DOMAIN stack'[Len(stack')].cnf : Len(stack'[Len(stack')].cnf[i]) # 1
       /\ (status = "running" /\ stack # <<>> /\ Top.pc = "unit"
             /\ stack'[Len(stack)].assignment # Top.assignment) =>
             \E i \in DOMAIN Top.cnf :
                 /\ Len(Top.cnf[i]) = 1
                 /\ ExtendsBy(stack'[Len(stack)].assignment, Top.assignment,
                              Abs(Top.cnf[i][1]), Top.cnf[i][1] > 0)
                 /\ decisions' = Append(decisions,
                        <<Abs(Top.cnf[i][1]), Top.cnf[i][1] > 0, "unit_propagation">>)
       /\ (Len(decisions') > Len(decisions)
             /\ decisions'[Len(decisions')][3] = "unit_propagation") =>
             (stack # <<>> /\ Top.pc = "unit"
                /\ stack'[Len(stack)].assignment # Top.assignment)
      ]_vars

\* C20 witness: the unit propagation of the outermost call has returned a
\* formula after two assignments, the second one forced by a clause that
\* was not a unit clause of the input
PropagatedTransitively ==
    /\ status = "running"
    /\ Len(stack) = 1
    /\ Top.pc = "unit_done"
    /\ ~Top.conflict
    /\ results = <<>>
    /\ Len(decisions) = 2
    /\ decisions[1][1] # decisions[2][1]
    /\ Cardinality({i \in DOMAIN original_cnf : Len(original_cnf[i]) = 1}) = 1

\* the variables that occur in F as a positive literal and never as a
\* negative one, and the other way round
OnlyPositive(F) == {v \in VariablesOf(F) : v \in LiteralsOf(F) /\ -v \notin LiteralsOf(F)}

OnlyNegative(F) == {v \in VariablesOf(F) : -v \in LiteralsOf(F) /\ v \notin LiteralsOf(F)}

\* F without every clause in which a variable of V occurs, the rest in order
WithoutClausesOf(F, V) ==
    SelectSeq(F, LAMBDA clause : \A j \in DOMAIN clause : Abs(clause[j]) \notin V)

\* C21: the pure-literal pass - purity is decided once, from the formula on
\* entry: the scan yields exactly the variables of one polarity and later
\* steps only take visited variables out of the two sets; every step assigns
\* a variable not yet assigned the value of its polarity, logs it with reason
\* pure_literal and removes the clauses holding it, whether or not any are
\* left; when the pass returns, every variable of one polarity in the entry
\* formula is assigned and logged and the formula is the entry formula minus
\* every clause containing a pure variable: no clause is shortened and no
\* empty clause is created.
PureLiteralPass ==
    [][/\ (status = "running" /\ stack # <<>> /\ Top.pc = "pure") =>
             LET f == stack'[Len(stack)]
             IN  /\ f.pure_positive = OnlyPositive(Top.cnf)
                 /\ f.pure_negative = OnlyNegative(Top.cnf)
                 /\ f.cnf = Top.cnf
                 /\ f.assignment = Top.assignment
                 /\ decisions' = decisions
       /\ (status = "running" /\ stack # <<>> /\ Top.pc \in {"pure_pos", "pure_neg"}) =>
             LET f == stack'[Len(stack)]
             IN  /\ f.pure_positive \subseteq Top.pure_positive
                 /\ f.pure_negative \subseteq Top.pure_negative
                 /\ \E v \in Top.pure_positive \cup Top.pure_negative :
                        /\ (f.pure_positive \cup f.pure_negative) =
                               (Top.pure_positive \cup Top.pure_negative) \ {v}
                        /\ ExtendsBy(f.assignment, Top.assignment, v,
                                     v \in Top.pure_positive)
                        /\ decisions' = Append(decisions,
                               <<v, v \in Top.pure_positive, "pure_literal">>)
                        /\ f.cnf = WithoutClausesOf(Top.cnf, {v})
       /\ (status = "running" /\ stack # <<>>
             /\ Top.pc \in {"pure", "pure_pos", "pure_neg"}
             /\ stack'[Len(stack)].pc = "pure_done") =>
             LET f == stack'[Len(stack)]
                 F == f.scanned
                 pure == OnlyPositive(F) \cup OnlyNegative(F)
             IN  /\ f.cnf = WithoutClausesOf(F, pure)
                 /\ \A v \in pure :
                        /\ v \in DOMAIN f.assignment
                        /\ f.assignment[v] = (v \in OnlyPositive(F))
                        /\ \E p \in DOMAIN decisions' :
                               /\ p > Len(decisions') - Cardinality(pure)
                               /\ decisions'[p] = <<v, v \in OnlyPositive(F), "pure_literal">>
                 /\ \A i \in DOMAIN f.cnf : \E j \in DOMAIN F : f.cnf[i] = F[j]
                 /\ ContainsEmptyClause(f.cnf) => ContainsEmptyClause(F)
      ]_vars

\* C21 witness: a pass has returned a formula that still holds clauses after
\* assigning two pure variables of which the second had no clause left
PassAssignedVanishedVariable ==
    /\ status = "running" /\ stack # <<>>
    /\ Top.pc = "pure_done"
    /\ Top.cnf # <<>>
    /\ Len(Top.scanned) = Len(Top.cnf) + 1
    /\ Len(decisions) >= 2
    /\ decisions[Len(decisions)][3] = "pure_literal"
    /\ decisions[Len(decisions) - 1][3] = "pure_literal"

\* assignment b holds every entry of assignment a
Includes(b, a) ==
    /\ DOMAIN a \subseteq DOMAIN b
    /\ \A x \in DOMAIN a : b[x] = a[x]

\* C22: single assignment per path - a step changes the assignment of a
\* call only by adding one variable that was not in it (unit propagation
\* and the pure-literal pass); a branch starts from the assignment of its
\* call plus the branch variable, which was not in it; so the assignment
\* of a call holds every entry of the calls below it, and no value is
\* overwritten.
SingleAssignment ==
    [][/\ \A i \in DOMAIN stack :
             i \in DOMAIN stack' =>
                 \/ stack'[i].assignment = stack[i].assignment
                 \/ \E v \in (DOMAIN stack'[i].assignment) \ (DOMAIN stack[i].assignment) :
                        /\ i = Len(stack)
                        /\ Top.pc \in {"unit", "pure_pos", "pure_neg"}
                        /\ ExtendsBy(stack'[i].assignment, stack[i].assignment, v,
                                     stack'[i].assignment[v])
                        /\ Len(decisions') = Len(decisions) + 1
                        /\ decisions'[Len(decisions')][1] = v
                        /\ decisions'[Len(decisions')][2] = stack'[i].assignment[v]
       /\ (stack # <<>> /\ Len(stack') = Len(stack) + 1) =>
             /\ Top.var \notin DOMAIN Top.assignment
             /\ stack'[Len(stack)].var \notin DOMAIN Top.assignment
             /\ ExtendsBy(stack'[Len(stack')].assignment, Top.assignment,
                          stack'[Len(stack)].var, Top.pc = "pure_done")
       /\ \A i, j \in DOMAIN stack' :
             i < j => Includes(stack'[j].assignment, stack'[i].assignment)
       /\ (status = "running" /\ ret = "none" /\ ret' = "True") =>
             assignment' = Top.assignment
      ]_vars

\* C22 witness: a false branch is running whose assignment holds at least
\* two more variables than that of the call that started it
WritesInFalseBranch ==
    /\ status = "running"
    /\ Len(stack) >= 2
    /\ stack[Len(stack) - 1].pc = "wait_false"
    /\ Cardinality(DOMAIN Top.assignment)
          >= Cardinality(DOMAIN stack[Len(stack) - 1].assignment) + 2
    /\ "backtrack" \in Reasons

AssignedVariablesEliminated ==
    /\ [](\A i \in DOMAIN stack :
            /\ \A v \in DOMAIN stack[i].assignment :
                   \A c \in DOMAIN stack[i].cnf :
                       \A j \in DOMAIN stack[i].cnf[c] : Abs(stack[i].cnf[c][j]) # v
            /\ ~stack[i].conflict)
    /\ [][(ret = "none" /\ ret' = "False") =>
             (stack # <<>> /\ Top.pc = "entry" /\ ContainsEmptyClause(Top.cnf))]_vars

\* C24 witness: a branch has failed on an empty clause below a call that
\* holds assigned variables and a formula with clauses
FailedOnEmptyClause ==
    /\ status = "running"
    /\ ret = "False"
    /\ stack # <<>>
    /\ Top.pc = "wait_true"
    /\ Top.cnf # <<>>
    /\ Cardinality(DOMAIN Top.assignment) >= 1

====
